---- MODULE Spec2Model ----
(***************************************************************************)
(* Model of simpleTransitions.js: the Animation record, AnimatableShape    *)
(* (tween, stretchIn, the two easing functions and the per-frame draw),    *)
(* the Button and TextField objects, and the scene wiring that drives one  *)
(* AnimatableEllipse from four text fields and three buttons.              *)
(*                                                                         *)
(* JavaScript numbers are modelled as exact extended rationals: a record   *)
(* [n, d] with d > 0 is the rational n/d in lowest terms, d = 0 encodes    *)
(* the non-finite values (+Infinity, -Infinity, NaN).  Rounding of IEEE    *)
(* doubles is not modelled; division by zero, NaN propagation and the      *)
(* comparisons with NaN are.                                               *)
(***************************************************************************)
EXTENDS Integers, Sequences, FiniteSets, TLC

VARIABLES
    clock,            \* the host clock (ms) when the last handler ended
    animatingEllipse, \* the AnimatableEllipse: x, y, width, height, 3 records
    sceneNumber,      \* 1 = Tween scene, 2 = Growth scene
    handler,          \* history: the handler that ran last, its millis() reads
    lastCall,         \* history: the last trigger issued and its arguments
    calls,            \* history: number of triggers issued so far (bounded)
    textFields,       \* the four TextField objects: x, y, duration, scale
    keys,             \* history: number of key presses so far (bounded)
    drawnScene        \* history: sceneNumber at the last drawUI(), 0 = none

\* The user interface.
uiVars == <<textFields, keys, drawnScene>>

vars == <<clock, animatingEllipse, sceneNumber, handler, lastCall, calls,
          textFields, keys, drawnScene>>

----------------------------------------------------------------------------
\* Bounds of the model.

\* The clock runs over 0 .. 250 * MaxTicks.
MaxTicks == 5

\* At most MaxCalls triggers (tween / stretchIn / button clicks) per behaviour.
MaxCalls == 2

\* At most MaxKeys key presses per behaviour of the application.
MaxKeys == 2

----------------------------------------------------------------------------
\* JavaScript numbers.

Abs(i) == IF i < 0 THEN -i ELSE i

Sgn(i) == IF i > 0 THEN 1 ELSE IF i < 0 THEN -1 ELSE 0

RECURSIVE GCD(_, _)
GCD(a, b) == IF b = 0 THEN a ELSE GCD(b, a % b)

\* n/d in lowest terms, for d > 0.
Reduce(n, d) ==
    IF d = 1 THEN [n |-> n, d |-> 1]
    ELSE LET g == GCD(Abs(n), d) IN [n |-> n \div g, d |-> d \div g]

\* n/d in lowest terms, for d # 0.
Frac(n, d) == IF d > 0 THEN Reduce(n, d) ELSE Reduce(-n, -d)

Int2Num(i) == [n |-> i, d |-> 1]

NaN == [n |-> 0, d |-> 0]

PosInf == [n |-> 1, d |-> 0]

NegInf == [n |-> -1, d |-> 0]

Zero == Int2Num(0)

One == Int2Num(1)

Two == Int2Num(2)

MinusOne == Int2Num(-1)

IsNaN(a) == a.d = 0 /\ a.n = 0

IsFinite(a) == a.d # 0

IsInf(a) == a.d = 0 /\ a.n # 0

Inf(sign) == IF sign > 0 THEN PosInf ELSE NegInf

\* a + b
Add(a, b) ==
    IF a.d # 0 /\ b.d # 0 THEN Reduce(a.n * b.d + b.n * a.d, a.d * b.d)
    ELSE IF IsNaN(a) \/ IsNaN(b) THEN NaN
    ELSE IF IsInf(a) /\ IsInf(b) THEN (IF a.n = b.n THEN a ELSE NaN)
    ELSE IF IsInf(a) THEN a
    ELSE b

\* a * b
Mul(a, b) ==
    IF a.d # 0 /\ b.d # 0 THEN Reduce(a.n * b.n, a.d * b.d)
    ELSE IF IsNaN(a) \/ IsNaN(b) THEN NaN
    ELSE IF a.n = 0 \/ b.n = 0 THEN NaN
    ELSE Inf(Sgn(a.n) * Sgn(b.n))

Neg(a) == [n |-> -a.n, d |-> a.d]

\* a - b
Sub(a, b) == Add(a, Neg(b))

\* a / b  (x/0 is +-Infinity, 0/0 and Infinity/Infinity are NaN; the sign of
\* a zero divisor is taken as positive)
Div(a, b) ==
    IF a.d # 0 /\ b.d # 0 /\ b.n # 0 THEN Frac(a.n * b.d, a.d * b.n)
    ELSE IF IsNaN(a) \/ IsNaN(b) THEN NaN
    ELSE IF IsInf(b) THEN (IF IsInf(a) THEN NaN ELSE Zero)
    ELSE IF IsInf(a) THEN Inf(Sgn(a.n) * (IF b.n < 0 THEN -1 ELSE 1))
    ELSE IF a.n = 0 THEN NaN
    ELSE Inf(Sgn(a.n))

\* a > b  (false as soon as one side is NaN)
Gt(a, b) ==
    IF a.d # 0 /\ b.d # 0 THEN a.n * b.d > b.n * a.d
    ELSE IF IsNaN(a) \/ IsNaN(b) THEN FALSE
    ELSE IF IsInf(a) /\ IsInf(b) THEN a.n > b.n
    ELSE IF IsInf(a) THEN a.n > 0
    ELSE b.n < 0

\* a < b
Lt(a, b) == Gt(b, a)

\* Math.pow(a, 2)
Pow2(a) == Mul(a, a)

----------------------------------------------------------------------------
\* Global constants of the sketch.

FRAME_RATE == 60

MILLISECONDS_IN_SECOND == 1000

\* The host canvas (the globals width and height of the runtime).
Canvas == [width |-> Int2Num(400), height |-> Int2Num(400)]

\* Clock values of the model, in ms: a grid of quarter seconds.
ClockValues == {250 * k : k \in 0 .. MaxTicks}

\* What a millis() call may return when the previous reading was t: the
\* clock is monotonic and may advance between two reads of one handler.
Later(t) == {u \in ClockValues : u >= t /\ u <= t + 250}

----------------------------------------------------------------------------
\* Animation

Animation(duration, startTime, destinationX, destinationY, startX, startY) ==
    [animDuration     |-> duration,
     animDestinationX |-> destinationX,
     animDestinationY |-> destinationY,
     animStartX       |-> startX,
     animStartY       |-> startY,
     animStartTime    |-> startTime,
     isAnimating      |-> FALSE,
     animDistanceX    |-> Sub(destinationX, startX),
     animDistanceY    |-> Sub(destinationY, startY)]

\* AnimatableShape(x, y, shapeWidth, shapeHeight); the three millis() calls
\* return t.  The stretch and shrink records are built from the canvas
\* globals width and height, as the constructor writes them.
AnimatableShape(x, y, shapeWidth, shapeHeight, t) ==
    [x      |-> x,
     y      |-> y,
     width  |-> shapeWidth,
     height |-> shapeHeight,
     animationTween   |-> Animation(Zero, t, x, y, x, y),
     animationStretch |-> Animation(Zero, t, Canvas.width, Canvas.height,
                                    Canvas.width, Canvas.height),
     animationShrink  |-> Animation(Zero, t, Canvas.width, Canvas.height,
                                    Canvas.width, Canvas.height)]

\* A tween that would start where the record in the slot started, instead of
\* at the shape's position of the moment of the call.
ShapeTweenFromRecord(s, finalX, finalY, duration, t) ==
    [s EXCEPT !.animationTween =
        [Animation(duration, t, finalX, finalY,
                   s.animationTween.animStartX, s.animationTween.animStartY)
            EXCEPT !.isAnimating = TRUE]]

\* AnimatableShape.prototype.tween; t is what millis() returns.
ShapeTween(s, finalX, finalY, duration, t) ==
    [s EXCEPT !.animationTween =
        [Animation(duration, t, finalX, finalY, s.x, s.y)
            EXCEPT !.isAnimating = TRUE]]

\* A stretchIn without the clamp.
ClampScaleNone(maxScale) == maxScale

\* The clamp of stretchIn: if (maxScale < 1.0) maxScale = 1.
ClampScale(maxScale) == IF Lt(maxScale, One) THEN One ELSE maxScale

\* A stretchIn that would start the shrink record along with the stretch.
ShapeStretchInBoth(s, maxScale0, duration, t1, t2) ==
    LET maxScale          == ClampScale(maxScale0)
        totalScaleChange  == Sub(Add(maxScale, maxScale), One)
        durationOfStretch == Mul(Div(maxScale, totalScaleChange), duration)
    IN  [s EXCEPT
          !.animationStretch =
              [Animation(durationOfStretch, t1,
                         Mul(maxScale, s.width), Mul(maxScale, s.height),
                         Zero, Zero)
                  EXCEPT !.isAnimating = TRUE],
          !.animationShrink =
              [Animation(Sub(duration, durationOfStretch), t2,
                         s.width, s.height,
                         Mul(maxScale, s.width), Mul(maxScale, s.height))
                  EXCEPT !.isAnimating = TRUE]]

\* A stretchIn that would split the duration by maxScale / (2 * maxScale).
ShapeStretchInHalf(s, maxScale0, duration, t1, t2) ==
    LET maxScale          == ClampScale(maxScale0)
        totalScaleChange  == Add(maxScale, maxScale)
        durationOfStretch == Mul(Div(maxScale, totalScaleChange), duration)
    IN  [s EXCEPT
          !.animationStretch =
              [Animation(durationOfStretch, t1,
                         Mul(maxScale, s.width), Mul(maxScale, s.height),
                         Zero, Zero)
                  EXCEPT !.isAnimating = TRUE],
          !.animationShrink =
              Animation(Sub(duration, durationOfStretch), t2,
                        s.width, s.height,
                        Mul(maxScale, s.width), Mul(maxScale, s.height))]

\* AnimatableShape.prototype.stretchIn; t1 and t2 are the two millis() reads.
ShapeStretchIn(s, maxScale0, duration, t1, t2) ==
    LET maxScale          == ClampScale(maxScale0)
        totalScaleChange  == Sub(Add(maxScale, maxScale), One)
        durationOfStretch == Mul(Div(maxScale, totalScaleChange), duration)
    IN  [s EXCEPT
          !.animationStretch =
              [Animation(durationOfStretch, t1,
                         Mul(maxScale, s.width), Mul(maxScale, s.height),
                         Zero, Zero)
                  EXCEPT !.isAnimating = TRUE],
          !.animationShrink =
              Animation(Sub(duration, durationOfStretch), t2,
                        s.width, s.height,
                        Mul(maxScale, s.width), Mul(maxScale, s.height))]

\* The clamp both easing functions apply: if (percentage > 1) percentage = 1.
ClampPercentage(p) == IF Gt(p, One) THEN One ELSE p

\* position + distance * Math.pow(percentage, 2)
EaseInAt(percentage, distance, position) ==
    Add(position, Mul(distance, Pow2(percentage)))

\* position + (-1 * distance * percentage * (percentage - 2))
EaseOutAt(percentage, distance, position) ==
    Add(position,
        Mul(Mul(Mul(MinusOne, distance), percentage), Sub(percentage, Two)))

\* AnimatableShape.prototype.calculateEaseIn
calculateEaseIn(time, duration, distance, position) ==
    EaseInAt(ClampPercentage(Div(time, duration)), distance, position)

\* AnimatableShape.prototype.calculateEaseOut
calculateEaseOut(time, duration, distance, position) ==
    EaseOutAt(ClampPercentage(Div(time, duration)), distance, position)

\* (millis() / MILLISECONDS_IN_SECOND) - (animStartTime / MILLISECONDS_IN_SECOND)
TimePassed(t, anim) ==
    Sub(Div(Int2Num(t), Int2Num(MILLISECONDS_IN_SECOND)),
        Div(Int2Num(anim.animStartTime), Int2Num(MILLISECONDS_IN_SECOND)))

\* A test that would end a slot at timePassed >= animDuration.
TimeIsUpOrEqual(t, anim) == ~Lt(TimePassed(t, anim), anim.animDuration)

\* The test that ends a slot: timePassed > animDuration, read at clock value t.
TimeIsUp(t, anim) == Gt(TimePassed(t, anim), anim.animDuration)

\* A first block that would not test whether the tween is running.
DrawTweenAlways(s, t) ==
    [s EXCEPT
      !.y = calculateEaseOut(TimePassed(t, s.animationTween),
                             s.animationTween.animDuration,
                             s.animationTween.animDistanceY,
                             s.animationTween.animStartY),
      !.x = calculateEaseOut(TimePassed(t, s.animationTween),
                             s.animationTween.animDuration,
                             s.animationTween.animDistanceX,
                             s.animationTween.animStartX),
      !.animationTween.isAnimating =
          IF TimeIsUp(t, s.animationTween) THEN FALSE ELSE @]

\* draw, first block: the tween slot.  t is the millis() read.
DrawTween(s, t) ==
    IF s.animationTween.isAnimating
    THEN [s EXCEPT
           !.y = calculateEaseOut(TimePassed(t, s.animationTween),
                                  s.animationTween.animDuration,
                                  s.animationTween.animDistanceY,
                                  s.animationTween.animStartY),
           !.x = calculateEaseOut(TimePassed(t, s.animationTween),
                                  s.animationTween.animDuration,
                                  s.animationTween.animDistanceX,
                                  s.animationTween.animStartX),
           !.animationTween.isAnimating =
               IF TimeIsUp(t, s.animationTween) THEN FALSE ELSE @]
    ELSE s

\* A hand-off that would stop the stretch and re-stamp the shrink without
\* starting it.
HandOffNoStart(s, tStamp) ==
    [s EXCEPT !.animationStretch.isAnimating = FALSE,
              !.animationShrink.animStartTime = tStamp]

\* A hand-off that would start the shrink without stopping the stretch.
HandOffKeepStretch(s, tStamp) ==
    [s EXCEPT !.animationShrink.animStartTime = tStamp,
              !.animationShrink.isAnimating = TRUE]

\* The hand-off of the second block: stop the stretch, re-stamp and start the
\* shrink.  tStamp is the millis() read of the re-stamp.
HandOff(s, tStamp) ==
    [s EXCEPT !.animationStretch.isAnimating = FALSE,
              !.animationShrink.animStartTime = tStamp,
              !.animationShrink.isAnimating = TRUE]

\* draw, second block: the stretch slot and the hand-off to shrink.  t is the
\* millis() read of the elapsed time.  The code writes the record's Y values
\* to width and its X values to height.
DrawStretch(s, t, tStamp) ==
    IF s.animationStretch.isAnimating
    THEN LET s1 == [s EXCEPT
                     !.width  = calculateEaseOut(
                                    TimePassed(t, s.animationStretch),
                                    s.animationStretch.animDuration,
                                    s.animationStretch.animDistanceY,
                                    s.animationStretch.animStartY),
                     !.height = calculateEaseOut(
                                    TimePassed(t, s.animationStretch),
                                    s.animationStretch.animDuration,
                                    s.animationStretch.animDistanceX,
                                    s.animationStretch.animStartX)]
         IN  IF TimeIsUp(t, s.animationStretch) THEN HandOff(s1, tStamp)
             ELSE s1
    ELSE s

\* A third block that would never stop the shrink.
DrawShrinkNoStop(s, t) ==
    IF s.animationShrink.isAnimating
    THEN [s EXCEPT
           !.width  = calculateEaseIn(TimePassed(t, s.animationShrink),
                                      s.animationShrink.animDuration,
                                      s.animationShrink.animDistanceY,
                                      s.animationShrink.animStartY),
           !.height = calculateEaseIn(TimePassed(t, s.animationShrink),
                                      s.animationShrink.animDuration,
                                      s.animationShrink.animDistanceX,
                                      s.animationShrink.animStartX)]
    ELSE s

\* draw, third block: the shrink slot.  t is the millis() read.
DrawShrink(s, t) ==
    IF s.animationShrink.isAnimating
    THEN [s EXCEPT
           !.width  = calculateEaseIn(TimePassed(t, s.animationShrink),
                                      s.animationShrink.animDuration,
                                      s.animationShrink.animDistanceY,
                                      s.animationShrink.animStartY),
           !.height = calculateEaseIn(TimePassed(t, s.animationShrink),
                                      s.animationShrink.animDuration,
                                      s.animationShrink.animDistanceX,
                                      s.animationShrink.animStartX),
           !.animationShrink.isAnimating =
               IF TimeIsUp(t, s.animationShrink) THEN FALSE ELSE @]
    ELSE s

\* What a millis() call returns after the reading t, when the call is made;
\* a call that is not made reads nothing and leaves the reading at t.
Read(t, made) == IF made THEN Later(t) ELSE {t}

----------------------------------------------------------------------------
\* Inputs of the model.

\* Shapes a client of AnimatableShape constructs: <<x, y, width, height>>.
Shapes == { <<Int2Num(100), Int2Num(100), Int2Num(20), Int2Num(40)>> }

\* Destinations handed to tween.
Finals == { <<Int2Num(200), Int2Num(300)>> }

\* Durations handed to tween, in seconds.
TweenDurations == { Frac(1, 2), Zero, Frac(-1, 2) }

\* Scales handed to stretchIn.
Scales == { Int2Num(3), One, Frac(1, 2) }

\* Durations handed to stretchIn, in seconds.
StretchDurations == { One, Frac(1, 2) }

\* Which slots run.
Running(s) ==
    [tween   |-> s.animationTween.isAnimating,
     stretch |-> s.animationStretch.isAnimating,
     shrink  |-> s.animationShrink.isAnimating]

\* The history of a trigger: the call, its arguments, the clock value it read,
\* the flags and the geometry of the shape when it was made.
Call(op, args, s, t) ==
    [op |-> op, args |-> args, t |-> t, was |-> Running(s),
     at |-> [x |-> s.x, y |-> s.y, width |-> s.width, height |-> s.height]]

NoCall == [op |-> "none"]

----------------------------------------------------------------------------
\* Button and TextField.  A string is the sequence of its characters.

TEXT_FIELD_WIDTH == 70

TEXT_FIELD_HEIGHT == 30

TEXT_FIELD_PADDING == 10

RESET_BTTN_WIDTH == 70

RESET_BTTN_HEIGHT == 30

RESET_BTTN_PADDING == 10

BTTN_WIDTH == 70

BTTN_HEIGHT == 30

BTTN_PADDING == 10

KEY_0 == 48

KEY_9 == 57

KEY_DOT == 46

\* The host's key codes of the two erasing keys.
BACKSPACE == 8

DELETE == 127

\* new Button(config): the rectangle of the config, enabled.  The configs of
\* this program give x, y, width and height, so none of the defaults applies.
Button(config) ==
    [x |-> config.x, y |-> config.y,
     width |-> config.width, height |-> config.height,
     isEnabled |-> TRUE]

\* new TextField(config): a Button that is not active; maxChars defaults to
\* 10 (config.maxChars || 10), numChar is the length of the value.
TextField(config) ==
    [x |-> config.x, y |-> config.y,
     width |-> config.width, height |-> config.height,
     isEnabled |-> TRUE,
     isActive  |-> FALSE,
     maxChar   |-> IF config.maxChars = 0 THEN 10 ELSE config.maxChars,
     value     |-> config.value,
     numChar   |-> Len(config.value)]

\* Button.prototype.isMouseInside with the mouse at m.
isMouseInside(b, m) ==
    /\ m.x > b.x
    /\ m.x < b.x + b.width
    /\ m.y > b.y
    /\ m.y < b.y + b.height

\* TextField.prototype.handleMouseClick with the mouse at m.
handleMouseClick(f, m) ==
    IF isMouseInside(f, m) /\ f.isEnabled THEN [f EXCEPT !.isActive = TRUE]
    ELSE IF f.isActive THEN [f EXCEPT !.isActive = FALSE]
    ELSE f

\* str.substring(0, n), for n >= 0.
Substring(str, n) == SubSeq(str, 1, IF n < Len(str) THEN n ELSE Len(str))

\* String.fromCharCode on the codes KEY_DOT .. KEY_9.
Chars == <<".", "/", "0", "1", "2", "3", "4", "5", "6", "7", "8", "9">>

FromCharCode(code) == Chars[code - KEY_DOT + 1]

\* handleKeyPressed with the erasing branch cutting the value before it
\* decrements numChar.
handleKeyPressedLateDecrement(f, k) ==
    IF (k.keyCode = DELETE \/ k.keyCode = BACKSPACE)
          /\ f.isActive /\ f.numChar > 0
    THEN [f EXCEPT !.numChar = f.numChar - 1,
                   !.value   = Substring(f.value, f.numChar)]
    ELSE IF f.numChar < f.maxChar /\ f.isActive
               /\ k.key >= KEY_DOT /\ k.key <= KEY_9
    THEN [f EXCEPT !.numChar = f.numChar + 1,
                   !.value   = f.value \o <<FromCharCode(k.key)>>]
    ELSE f

\* TextField.prototype.handleKeyPressed; the event k holds the host's
\* keyCode and key (the character code of the key).
handleKeyPressed(f, k) ==
    IF (k.keyCode = DELETE \/ k.keyCode = BACKSPACE)
          /\ f.isActive /\ f.numChar > 0
    THEN [f EXCEPT !.numChar = f.numChar - 1,
                   !.value   = Substring(f.value, f.numChar - 1)]
    ELSE IF f.numChar < f.maxChar /\ f.isActive
               /\ k.key >= KEY_DOT /\ k.key <= KEY_9
    THEN [f EXCEPT !.numChar = f.numChar + 1,
                   !.value   = f.value \o <<FromCharCode(k.key)>>]
    ELSE f

\* The four text fields as the script constructs them; Final x and Scale
\* are given the same rectangle.
xTextField ==
    TextField([x |-> Canvas.width.n \div 4 - TEXT_FIELD_WIDTH \div 2,
               y |-> Canvas.height.n - TEXT_FIELD_HEIGHT - TEXT_FIELD_PADDING,
               width |-> TEXT_FIELD_WIDTH, height |-> TEXT_FIELD_HEIGHT,
               maxChars |-> 5, value |-> <<"2", "0", "0">>])

yTextField ==
    TextField([x |-> Canvas.width.n \div 2 - TEXT_FIELD_WIDTH \div 2,
               y |-> Canvas.height.n - TEXT_FIELD_HEIGHT - TEXT_FIELD_PADDING,
               width |-> TEXT_FIELD_WIDTH, height |-> TEXT_FIELD_HEIGHT,
               maxChars |-> 5, value |-> <<"2", "0", "0">>])

durationTextField ==
    TextField([x |-> 3 * (Canvas.width.n \div 4) - TEXT_FIELD_WIDTH \div 2,
               y |-> Canvas.height.n - TEXT_FIELD_HEIGHT - TEXT_FIELD_PADDING,
               width |-> TEXT_FIELD_WIDTH, height |-> TEXT_FIELD_HEIGHT,
               maxChars |-> 5, value |-> <<"0", ".", "5">>])

scaleTextField ==
    TextField([x |-> 1 * (Canvas.width.n \div 4) - TEXT_FIELD_WIDTH \div 2,
               y |-> Canvas.height.n - TEXT_FIELD_HEIGHT - TEXT_FIELD_PADDING,
               width |-> TEXT_FIELD_WIDTH, height |-> TEXT_FIELD_HEIGHT,
               maxChars |-> 5, value |-> <<"1", ".", "5">>])

\* The text fields of the program, by name.
TextFields ==
    [x |-> xTextField, y |-> yTextField,
     duration |-> durationTextField, scale |-> scaleTextField]

FieldNames == {"x", "y", "duration", "scale"}

resetButton ==
    Button([x |-> Canvas.width.n - RESET_BTTN_WIDTH - RESET_BTTN_PADDING,
            y |-> RESET_BTTN_PADDING,
            width |-> RESET_BTTN_WIDTH, height |-> RESET_BTTN_HEIGHT])

tweenButton ==
    Button([x |-> Canvas.width.n - BTTN_WIDTH - BTTN_PADDING,
            y |-> 100,
            width |-> BTTN_WIDTH, height |-> BTTN_HEIGHT])

growthButton ==
    Button([x |-> Canvas.width.n - BTTN_WIDTH - BTTN_PADDING,
            y |-> tweenButton.y + tweenButton.height + BTTN_PADDING,
            width |-> BTTN_WIDTH, height |-> BTTN_HEIGHT])

\* drawUI() without the write that disables Scale in scene 1.
drawUIScaleKept(fs, scene) ==
    IF scene = 1
    THEN [fs EXCEPT !.x.isEnabled = TRUE, !.y.isEnabled = TRUE]
    ELSE IF scene = 2
    THEN [fs EXCEPT !.scale.isEnabled = TRUE, !.x.isEnabled = FALSE]
    ELSE fs

\* drawUI() on the fields fs in the scene given: what it writes.  Scene 2
\* disables Final x twice and leaves Final y as it is.
drawUI(fs, scene) ==
    IF scene = 1
    THEN [fs EXCEPT !.x.isEnabled = TRUE, !.y.isEnabled = TRUE,
                    !.scale.isEnabled = FALSE]
    ELSE IF scene = 2
    THEN [fs EXCEPT !.scale.isEnabled = TRUE, !.x.isEnabled = FALSE]
    ELSE fs

----------------------------------------------------------------------------
\* The shape driven directly through its interface.  Handlers run one at a
\* time; the host clock advances between two handlers and inside one.

\* The clock values at which the next handler can start.
Now == {t \in ClockValues : t >= clock}

Init ==
    /\ clock = 0
    /\ \E sh \in Shapes :
          animatingEllipse = AnimatableShape(sh[1], sh[2], sh[3], sh[4], 0)
    /\ sceneNumber = 1
    /\ handler = [name |-> "init", reads |-> <<>>]
    /\ lastCall = NoCall
    /\ calls = 0
    /\ textFields = TextFields
    /\ keys = 0
    /\ drawnScene = 0

\* animatingEllipse.tween(finalX, finalY, duration), millis() reading t.
TweenCall(finalX, finalY, duration, t) ==
    /\ calls < MaxCalls
    /\ animatingEllipse' =
           ShapeTween(animatingEllipse, finalX, finalY, duration, t)
    /\ lastCall' = Call("tween", <<finalX, finalY, duration>>,
                        animatingEllipse, t)
    /\ calls' = calls + 1
    /\ clock' = t
    /\ handler' = [name |-> "tween", reads |-> <<t>>]
    /\ UNCHANGED sceneNumber
    /\ UNCHANGED uiVars

\* A client calls tween with a duration of D.
TweenWith(D) == \E f \in Finals, duration \in D, t \in Now :
                    TweenCall(f[1], f[2], duration, t)

Tween == TweenWith(TweenDurations)

\* animatingEllipse.stretchIn(maxScale, duration); both millis() calls of the
\* handler read t.
StretchInCall(maxScale, duration, t) ==
    /\ calls < MaxCalls
    /\ animatingEllipse' =
           ShapeStretchIn(animatingEllipse, maxScale, duration, t, t)
    /\ lastCall' = Call("stretchIn", <<maxScale, duration>>,
                        animatingEllipse, t)
    /\ calls' = calls + 1
    /\ clock' = t
    /\ handler' = [name |-> "stretchIn", reads |-> <<t, t>>]
    /\ UNCHANGED sceneNumber
    /\ UNCHANGED uiVars

\* A client calls stretchIn with a scale of S and a duration of D.
StretchInWith(S, D) == \E maxScale \in S, duration \in D, t \in Now :
                           StretchInCall(maxScale, duration, t)

StretchIn == StretchInWith(Scales, StretchDurations)

\* AnimatableShape.prototype.draw on the ellipse in a frame that starts at
\* clock value t0, with the readings t1 .. t4 of its millis() calls (tween,
\* stretch, re-stamp, shrink); the clock ends at the last one.
EllipseDraw(t0, t1, t2, t3, t4) ==
    /\ t1 \in Read(t0, animatingEllipse.animationTween.isAnimating)
    /\ t2 \in Read(t1, animatingEllipse.animationStretch.isAnimating)
    /\ t3 \in Read(t2, animatingEllipse.animationStretch.isAnimating
                         /\ TimeIsUp(t2, animatingEllipse.animationStretch))
    /\ \E s2 \in {DrawStretch(DrawTween(animatingEllipse, t1), t2, t3)} :
          /\ t4 \in Read(t3, s2.animationShrink.isAnimating)
          /\ animatingEllipse' = DrawShrink(s2, t4)
    /\ clock' = t4

\* One frame of a client that only draws the shape.
Draw ==
    \E t0 \in Now : \E t1 \in Later(t0) : \E t2 \in Later(t1) :
    \E t3 \in Later(t2) : \E t4 \in Later(t3) :
        /\ EllipseDraw(t0, t1, t2, t3, t4)
        /\ handler' = [name |-> "draw", reads |-> <<t1, t2, t3, t4>>]
        /\ UNCHANGED <<sceneNumber, lastCall, calls>>
        /\ UNCHANGED uiVars

NextTween == Tween \/ Draw

\* A client that only tweens the shape.
SpecTween == Init /\ [][NextTween]_vars

NextGrowth == StretchIn \/ Draw

\* A client that only grows the shape.
SpecGrowth == Init /\ [][NextGrowth]_vars

\* Scales and durations of a client that only calls stretchIn.
SplitScales == { One, Frac(3, 2), Int2Num(2), Int2Num(3), Frac(1, 2) }

SplitDurations == { Zero, Frac(1, 2), One, Int2Num(2) }

StretchInAny == StretchInWith(SplitScales, SplitDurations)

NextSplit == StretchInAny

\* A client that only calls stretchIn, with more arguments.
SpecSplit == Init /\ [][NextSplit]_vars

\* A host that calls draw at every clock value of the grid: the clock does
\* not advance inside a handler, and by at most one step between two
\* handlers.  A trigger is issued only while the bounded clock has a second
\* left to run.
Early == {t \in {clock} : t + 1000 <= 250 * MaxTicks}

TweenEarly == \E f \in Finals, duration \in {Frac(1, 2), Zero}, t \in Early :
                  TweenCall(f[1], f[2], duration, t)

StretchInEarly == \E maxScale \in {Int2Num(3), Frac(1, 2)}, t \in Early :
                      StretchInCall(maxScale, Frac(1, 2), t)

FrameLive == \E t \in Later(clock) :
                 /\ EllipseDraw(t, t, t, t, t)
                 /\ handler' = [name |-> "draw", reads |-> <<t, t, t, t>>]
                 /\ UNCHANGED <<sceneNumber, lastCall, calls>>
                 /\ UNCHANGED uiVars

\* The clock moves on to the next value of the grid.
ClockStep == clock' = clock + 250 /\ clock' \in ClockValues

NextLive == TweenEarly \/ StretchInEarly \/ FrameLive

\* The host keeps calling draw (frameRate(FRAME_RATE)) and its clock keeps
\* advancing, as far as the bounded clock of the model goes.
SpecLive == Init /\ [][NextLive]_vars /\ WF_clock(ClockStep)

\* A client that does both, with fewer arguments.
TweenSome == TweenWith({Frac(1, 2), Zero})

StretchInSome == StretchInWith({Int2Num(3), Frac(1, 2)}, {Frac(1, 2)})

Next == TweenSome \/ StretchInSome \/ Draw

\* Every interleaving of tween calls, stretchIn calls and frames.
Spec == Init /\ [][Next]_vars

----------------------------------------------------------------------------
\* The application: the demo ellipse, its text fields, scenes and buttons.

Digits == <<"0", "1", "2", "3", "4", "5", "6", "7", "8", "9">>

IsDigit(c) == \E i \in 1 .. 10 : Digits[i] = c

DigitValue(c) == (CHOOSE i \in 1 .. 10 : Digits[i] = c) - 1

\* The length of the longest run of digits of str that starts at index from.
DigitRun(str, from) ==
    LET ends == {k \in (from - 1) .. Len(str) :
                    \A i \in from .. k : IsDigit(str[i])}
    IN  (CHOOSE k \in ends : \A j \in ends : j <= k) - (from - 1)

\* The number written by the n digits of str that start at index from.
RECURSIVE NatOf(_, _, _)
NatOf(str, from, n) ==
    IF n = 0 THEN 0
    ELSE NatOf(str, from, n - 1) * 10 + DigitValue(str[from + n - 1])

RECURSIVE Pow10(_)
Pow10(n) == IF n = 0 THEN 1 ELSE 10 * Pow10(n - 1)

\* parseInt(str, null) on the characters a text field accepts ('.', '/' and
\* the digits): the leading digits in base 10, NaN when there is none.
parseInt(str) ==
    LET n == DigitRun(str, 1)
    IN  IF n = 0 THEN NaN ELSE Int2Num(NatOf(str, 1, n))

\* parseFloat(str) on the same characters: the longest prefix of the form
\* digits [ '.' digits ] that holds a digit, NaN when there is none.
parseFloat(str) ==
    LET n      == DigitRun(str, 1)
        hasDot == n < Len(str) /\ str[n + 1] = "."
        m      == IF hasDot THEN DigitRun(str, n + 2) ELSE 0
    IN  IF n + m = 0 THEN NaN
        ELSE Frac(NatOf(str, 1, n) * Pow10(m) + NatOf(str, n + 2, m),
                  Pow10(m))

\* new AnimatableEllipse(width * 0.5, 0, 20, 20), constructed at clock value t.
AnimatableEllipse(t) ==
    AnimatableShape(Mul(Canvas.width, Frac(1, 2)), Zero,
                    Int2Num(20), Int2Num(20), t)

\* initAnimation, scene 1: place the ellipse at the top centre.
PlaceForTween(s) ==
    [s EXCEPT !.x = Mul(Canvas.width, Frac(1, 2)), !.y = Zero]

\* initAnimation, scene 2: place the ellipse at the centre.
PlaceForGrowth(s) ==
    [s EXCEPT !.x = Mul(Canvas.width, Frac(1, 2)),
              !.y = Mul(Canvas.height, Frac(1, 2))]

\* initAnimation, scene 2: if (scaleInput < 1) scaleInput = 1.
ScaleInput(v) == IF Lt(v, One) THEN One ELSE v

\* The arguments initAnimation hands to tween and to stretchIn, read from
\* the text fields fs.
TweenInputs(fs) ==
    <<parseInt(fs.x.value), parseInt(fs.y.value),
      parseFloat(fs.duration.value)>>

GrowthInputs(fs) ==
    <<ScaleInput(parseFloat(fs.scale.value)),
      parseFloat(fs.duration.value)>>

\* initAnimation, scene 2: if (scaleInput < 1) scaleTextField.value = "1";
\* numChar of the field is not written.
ScaleRewritten(fs, scene) ==
    IF scene = 2 /\ Lt(parseFloat(fs.scale.value), One)
    THEN [fs EXCEPT !.scale.value = <<"1">>]
    ELSE fs

\* The shape after initAnimation() in the scene given, its millis() calls
\* reading t.  Nothing stops the slots of the other scene.
SceneStarted(s, fs, scene, t) ==
    IF scene = 1
    THEN ShapeTween(PlaceForTween(s), TweenInputs(fs)[1], TweenInputs(fs)[2],
                    TweenInputs(fs)[3], t)
    ELSE ShapeStretchIn(PlaceForGrowth(s),
                        GrowthInputs(fs)[1], GrowthInputs(fs)[2], t, t)

\* The history that initAnimation() leaves in the scene given.
SceneCall(s, fs, scene, t) ==
    IF scene = 1 THEN Call("tween", TweenInputs(fs), PlaceForTween(s), t)
    ELSE Call("stretchIn", GrowthInputs(fs), PlaceForGrowth(s), t)

SceneHandler(scene, t) ==
    IF scene = 1 THEN [name |-> "tween", reads |-> <<t>>]
    ELSE [name |-> "stretchIn", reads |-> <<t, t>>]

\* initAnimation() in a mouse click handled at clock value t: what it does to
\* the ellipse (ScaleRewritten is what it does to the Scale field).
initAnimation(scene, t) ==
    /\ calls < MaxCalls
    /\ scene \in {1, 2}
    /\ animatingEllipse' = SceneStarted(animatingEllipse, textFields, scene, t)
    /\ lastCall' = SceneCall(animatingEllipse, textFields, scene, t)
    /\ handler' = SceneHandler(scene, t)
    /\ calls' = calls + 1
    /\ clock' = t

\* setScene(scene) in a mouse click handled at clock value t.
setScene(scene, t) ==
    /\ sceneNumber' = scene
    /\ initAnimation(scene, t)

\* The state after the script has run: the ellipse and the text fields are
\* constructed, setScene(1) starts the first tween, drawUI() draws scene 1.
InitApp ==
    /\ clock = 0
    /\ sceneNumber = 1
    /\ textFields = drawUI(ScaleRewritten(TextFields, 1), 1)
    /\ animatingEllipse = SceneStarted(AnimatableEllipse(0), TextFields, 1, 0)
    /\ lastCall = SceneCall(AnimatableEllipse(0), TextFields, 1, 0)
    /\ handler = SceneHandler(1, 0)
    /\ calls = 0
    /\ keys = 0
    /\ drawnScene = 1

\* The four handleMouseClick calls that end mouseClicked, the mouse at m.
FieldsClicked(fs, m) == [f \in FieldNames |-> handleMouseClick(fs[f], m)]

\* mouseClicked with the mouse at m, handled at clock value t: the three
\* buttons (their rectangles are disjoint, so at most one of them acts), then
\* the four text fields.
mouseClicked(m, t) ==
    LET reset  == isMouseInside(resetButton, m) /\ resetButton.isEnabled
        tween  == isMouseInside(tweenButton, m) /\ tweenButton.isEnabled
        growth == isMouseInside(growthButton, m) /\ growthButton.isEnabled
        scene  == IF tween THEN 1 ELSE IF growth THEN 2 ELSE sceneNumber
    IN  IF reset \/ tween \/ growth
        THEN /\ setScene(scene, t)
             /\ textFields' =
                    FieldsClicked(ScaleRewritten(textFields, scene), m)
             /\ UNCHANGED <<keys, drawnScene>>
        ELSE /\ textFields' = FieldsClicked(textFields, m)
             /\ handler' = [name |-> "mouseClicked", reads |-> <<>>]
             /\ clock' = t
             /\ UNCHANGED <<animatingEllipse, sceneNumber, lastCall, calls,
                            keys, drawnScene>>

\* keyPressed with the key event k, handled at clock value t: each of the
\* four text fields handles the key.
keyPressed(k, t) ==
    /\ keys < MaxKeys
    /\ keys' = keys + 1
    /\ textFields' = [f \in FieldNames |-> handleKeyPressed(textFields[f], k)]
    /\ handler' = [name |-> "keyPressed", reads |-> <<>>]
    /\ clock' = t
    /\ UNCHANGED <<animatingEllipse, sceneNumber, lastCall, calls, drawnScene>>

\* Where the mouse is when it is clicked: a point inside each button and each
\* text field rectangle, and a point inside none.
ReplayPoint == [x |-> 355, y |-> 25]

TweenPoint == [x |-> 355, y |-> 115]

GrowthPoint == [x |-> 355, y |-> 155]

XScalePoint == [x |-> 100, y |-> 375]

YPoint == [x |-> 200, y |-> 375]

DurationPoint == [x |-> 300, y |-> 375]

NowherePoint == [x |-> 10, y |-> 200]

ButtonPoints == {ReplayPoint, TweenPoint, GrowthPoint}

FieldPoints == {XScalePoint, YPoint, DurationPoint, NowherePoint}

\* The key events of the model: backspace, '7', '.' and the letter 'a'.
BackspaceKey == [keyCode |-> BACKSPACE, key |-> BACKSPACE]

SevenKey == [keyCode |-> 55, key |-> 55]

CharKeys == {SevenKey, [keyCode |-> 190, key |-> KEY_DOT]}

KeyEvents == {BackspaceKey, [keyCode |-> 65, key |-> 97]} \cup CharKeys

\* A click on the Replay button.
ClickReplay == \E t \in Now : mouseClicked(ReplayPoint, t)

\* A click on the Tween button.
ClickTween == \E t \in Now : mouseClicked(TweenPoint, t)

\* A click on the Growth button.
ClickGrowth == \E t \in Now : mouseClicked(GrowthPoint, t)

\* The host's draw with the readings given: animatingEllipse.draw(), then
\* drawUI().
HostDraw(t0, t1, t2, t3, t4) ==
    /\ EllipseDraw(t0, t1, t2, t3, t4)
    /\ handler' = [name |-> "draw", reads |-> <<t1, t2, t3, t4>>]
    /\ textFields' = drawUI(textFields, sceneNumber)
    /\ drawnScene' = sceneNumber
    /\ UNCHANGED <<sceneNumber, lastCall, calls, keys>>

Frame ==
    \E t0 \in Now : \E t1 \in Later(t0) : \E t2 \in Later(t1) :
    \E t3 \in Later(t2) : \E t4 \in Later(t3) :
        HostDraw(t0, t1, t2, t3, t4)

NextApp == ClickReplay \/ ClickTween \/ ClickGrowth \/ Frame

\* The application under clicks on its three buttons and frames.
SpecApp == InitApp /\ [][NextApp]_vars

\* The user interface: clicks anywhere, the keys backspace and '7', and
\* frames.  The text fields never read the clock; the events are taken at one
\* clock value.
Click == \E m \in ButtonPoints \cup FieldPoints : mouseClicked(m, clock)

Key == \E k \in {BackspaceKey, SevenKey} : keyPressed(k, clock)

FrameUI == HostDraw(clock, clock, clock, clock, clock)

NextUI == Click \/ Key \/ FrameUI

SpecUI == InitApp /\ [][NextUI]_vars

----------------------------------------------------------------------------
\* The slots of the ellipse, as the claims name them.

tweenSlot == animatingEllipse.animationTween

stretchSlot == animatingEllipse.animationStretch

shrinkSlot == animatingEllipse.animationShrink

\* The millis() readings of the handler that ran last.
reads == handler.reads

----------------------------------------------------------------------------
\* C1: phase hand-off.  An update that starts with the stretch slot running
\* and reads an elapsed time strictly greater than the stretch duration stops
\* the stretch, starts the shrink and re-stamps shrink.animStartTime with the
\* clock value it reads at that moment, all before its shrink block runs; the
\* update therefore ends with the stretch stopped, the shrink re-stamped, and
\* the shrink either running or already ended by its own time-is-up test of
\* the same update: never with the stretch stopped and the shrink not started.
C1_HandOff ==
    [][(/\ handler'.name = "draw"
        /\ stretchSlot.isAnimating
        /\ TimeIsUp(reads'[2], stretchSlot))
       => /\ LET mid == DrawStretch(DrawTween(animatingEllipse, reads'[1]),
                                    reads'[2], reads'[3])
             IN  /\ ~mid.animationStretch.isAnimating
                 /\ mid.animationShrink.isAnimating
                 /\ mid.animationShrink.animStartTime = reads'[3]
          /\ ~stretchSlot'.isAnimating
          /\ shrinkSlot'.animStartTime = reads'[3]
          /\ clock <= reads'[3] /\ reads'[3] <= clock'
          /\ shrinkSlot'.isAnimating \/ TimeIsUp(reads'[4], shrinkSlot')
      ]_vars

\* C1 witness: a hand-off has just happened at the current clock value, some
\* time after the stretchIn call.
C1_Witness ==
    /\ lastCall.op = "stretchIn"
    /\ clock > lastCall.t
    /\ ~stretchSlot.isAnimating
    /\ shrinkSlot.isAnimating
    /\ shrinkSlot.animStartTime = clock

\* C2: a slot goes from not running to running only in a tween call (tween
\* slot), a stretchIn call (stretch slot) or the hand-off of an update (shrink
\* slot: the step is a draw, the stretch was running before it and is
\* stopped after it, and its time was up at a clock value the update read).
C2_OnlyTriggersStart ==
    [][/\ (~tweenSlot.isAnimating /\ tweenSlot'.isAnimating)
            => handler'.name = "tween"
       /\ (~stretchSlot.isAnimating /\ stretchSlot'.isAnimating)
            => handler'.name = "stretchIn"
       /\ (~shrinkSlot.isAnimating /\ shrinkSlot'.isAnimating)
            => /\ handler'.name = "draw"
               /\ stretchSlot.isAnimating
               /\ ~stretchSlot'.isAnimating
               /\ TimeIsUp(reads'[2], stretchSlot)
      ]_vars

\* C2 witness: all three kinds of start have happened: the tween runs after
\* a tween call, and the shrink runs after the hand-off of a stretchIn call.
C2_Witness ==
    /\ calls = 2
    /\ tweenSlot.isAnimating
    /\ ~stretchSlot.isAnimating
    /\ shrinkSlot.isAnimating
    /\ stretchSlot.animStartTime < shrinkSlot.animStartTime

\* C3: tween completion.  The update that finds a tween of duration d > 0
\* running and reads an elapsed time strictly greater than d leaves the shape
\* at exactly the destination with the tween stopped, and an update that
\* finds the tween stopped leaves x and y unchanged.
C3_TweenCompletion ==
    [][handler'.name = "draw" =>
         /\ (/\ tweenSlot.isAnimating
             /\ Gt(tweenSlot.animDuration, Zero)
             /\ TimeIsUp(reads'[1], tweenSlot))
            => /\ animatingEllipse'.x = tweenSlot.animDestinationX
               /\ animatingEllipse'.y = tweenSlot.animDestinationY
               /\ ~tweenSlot'.isAnimating
         /\ ~tweenSlot.isAnimating
            => /\ animatingEllipse'.x = animatingEllipse.x
               /\ animatingEllipse'.y = animatingEllipse.y
      ]_vars

\* The duration of the stretch phase that stretchIn(maxScale, duration)
\* computes for a scale of at least 1.
StretchDurationOf(maxScale, duration) ==
    Mul(Div(maxScale, Sub(Add(maxScale, maxScale), One)), duration)

\* The time in seconds between the clock values t and u.
Seconds(t, u) ==
    Sub(Div(Int2Num(u), Int2Num(MILLISECONDS_IN_SECOND)),
        Div(Int2Num(t), Int2Num(MILLISECONDS_IN_SECOND)))

\* The last trigger was a stretchIn issued while the stretch and the shrink
\* slots were idle.
GrowthFromIdle ==
    /\ lastCall.op = "stretchIn"
    /\ ~lastCall.was.stretch
    /\ ~lastCall.was.shrink

\* C4: growth returns to the original size.  After stretchIn(maxScale,
\* duration) with duration > 0 on a shape of width W and height H whose
\* stretch and shrink slots are idle, an update that leaves the stretch
\* running leaves width within 0 .. maxScale*W and height within
\* 0 .. maxScale*H, and once both slots are idle again width = W and
\* height = H.
C4_GrowthReturns ==
    (/\ GrowthFromIdle
     /\ Gt(lastCall.args[2], Zero)
     /\ handler.name = "draw")
    => /\ stretchSlot.isAnimating
          => /\ ~Lt(animatingEllipse.width, Zero)
             /\ ~Gt(animatingEllipse.width,
                    Mul(ClampScale(lastCall.args[1]), lastCall.at.width))
             /\ ~Lt(animatingEllipse.height, Zero)
             /\ ~Gt(animatingEllipse.height,
                    Mul(ClampScale(lastCall.args[1]), lastCall.at.height))
       /\ (~stretchSlot.isAnimating /\ ~shrinkSlot.isAnimating)
          => /\ animatingEllipse.width = lastCall.at.width
             /\ animatingEllipse.height = lastCall.at.height

\* C5: only one scenario is active at a time.  In every state the
\* application reaches through clicks on Tween, Growth and Replay and through
\* frames, the tween slot is not running while the stretch or the shrink slot
\* is running.
C5_OneScenario ==
    ~(tweenSlot.isAnimating
        /\ (stretchSlot.isAnimating \/ shrinkSlot.isAnimating))

\* C6: tween(finalX, finalY, duration) replaces the tween record with one
\* that starts at the shape's (x, y) of the moment of the call, ends at
\* (finalX, finalY), has distance = destination - start, is stamped with the
\* clock value the call reads and is running; also when a tween is running.
C6_TweenRecord ==
    [][handler'.name = "tween" =>
         /\ lastCall'.op = "tween"
         /\ clock <= reads'[1] /\ reads'[1] <= clock'
         /\ tweenSlot' =
              [animDuration     |-> lastCall'.args[3],
               animDestinationX |-> lastCall'.args[1],
               animDestinationY |-> lastCall'.args[2],
               animStartX       |-> animatingEllipse.x,
               animStartY       |-> animatingEllipse.y,
               animStartTime    |-> reads'[1],
               isAnimating      |-> TRUE,
               animDistanceX    |-> Sub(lastCall'.args[1], animatingEllipse.x),
               animDistanceY    |-> Sub(lastCall'.args[2], animatingEllipse.y)]
      ]_vars

\* C6 witness: a tween was called while a tween was running, and its record
\* starts at a mid-interpolation position: strictly between the constructed
\* y and the destination y of the tween in flight.
C6_Witness ==
    /\ handler.name = "tween"
    /\ lastCall.was.tween
    /\ calls = 2
    /\ Gt(tweenSlot.animStartY, Int2Num(100))
    /\ Lt(tweenSlot.animStartY, Int2Num(300))
    /\ tweenSlot.animStartY = animatingEllipse.y

\* C7: zero duration means instant completion.  An update that finds a tween
\* of duration 0 running (its start a finite position) writes the
\* destination into the shape, and no not-a-number.
C7_ZeroDuration ==
    [][(/\ handler'.name = "draw"
        /\ tweenSlot.isAnimating
        /\ tweenSlot.animDuration = Zero
        /\ IsFinite(tweenSlot.animStartX) /\ IsFinite(tweenSlot.animStartY))
       => /\ animatingEllipse'.x = tweenSlot.animDestinationX
          /\ animatingEllipse'.y = tweenSlot.animDestinationY
          /\ ~IsNaN(animatingEllipse'.x) /\ ~IsNaN(animatingEllipse'.y)
      ]_vars

\* C8: negative duration is tolerated.  An update that finds a tween of
\* duration d < 0 running (its start a finite position) puts the shape at the
\* destination and stops the slot.
C8_NegativeDuration ==
    [][(/\ handler'.name = "draw"
        /\ tweenSlot.isAnimating
        /\ Lt(tweenSlot.animDuration, Zero)
        /\ IsFinite(tweenSlot.animStartX) /\ IsFinite(tweenSlot.animStartY))
       => /\ animatingEllipse'.x = tweenSlot.animDestinationX
          /\ animatingEllipse'.y = tweenSlot.animDestinationY
          /\ ~tweenSlot'.isAnimating
      ]_vars

\* The last trigger was stretchIn(scale, d) with scale >= 1 and d > 0.
GrowthCalled ==
    /\ lastCall.op = "stretchIn"
    /\ ~Lt(lastCall.args[1], One)
    /\ Gt(lastCall.args[2], Zero)

\* C9 as stated: after stretchIn(scale, d) with scale >= 1 and d > 0, an
\* update taken when the time since the trigger is greater than or equal to
\* the stretch duration leaves the shrink running and the stretch stopped.
C9_AfterStretchDuration ==
    [][(/\ handler'.name = "draw"
        /\ GrowthCalled
        /\ ~Lt(Seconds(lastCall.t, reads'[2]),
               StretchDurationOf(lastCall.args[1], lastCall.args[2])))
       => /\ shrinkSlot'.isAnimating
          /\ ~stretchSlot'.isAnimating
      ]_vars

\* C9 amended: after stretchIn(scale, d) with scale >= 1 and d > 0, the
\* update that finds the stretch running and reads a time since the trigger
\* strictly greater than the stretch duration leaves the stretch stopped, and
\* the shrink running unless its shrink block already reads a time since the
\* re-stamp greater than the shrink duration; an update that reads a time
\* since the trigger up to and including the stretch duration leaves the
\* stretch running and the shrink not running.
C9_FirstUpdatePastStretch ==
    [][(/\ handler'.name = "draw"
        /\ GrowthCalled
        /\ stretchSlot.isAnimating)
       => IF Gt(Seconds(lastCall.t, reads'[2]),
                StretchDurationOf(lastCall.args[1], lastCall.args[2]))
          THEN /\ ~stretchSlot'.isAnimating
               /\ shrinkSlot'.isAnimating
                    <=> ~Gt(Seconds(reads'[3], reads'[4]),
                            Sub(lastCall.args[2],
                                StretchDurationOf(lastCall.args[1],
                                                  lastCall.args[2])))
          ELSE /\ stretchSlot'.isAnimating
               /\ ~shrinkSlot'.isAnimating
      ]_vars

\* C9 witness: stretchIn(3, 1) was called, and an update that read a time
\* past the stretch duration of 0.6 s has left the shrink running.
C9_Witness ==
    /\ GrowthCalled
    /\ lastCall.args = <<Int2Num(3), One>>
    /\ handler.name = "draw"
    /\ Gt(Seconds(lastCall.t, reads[2]), Frac(3, 5))
    /\ reads[3] = shrinkSlot.animStartTime
    /\ ~stretchSlot.isAnimating
    /\ shrinkSlot.isAnimating

\* C10: stretchIn clamps the scale.  stretchIn(maxScale, duration) with
\* maxScale < 1 builds the stretch and shrink records that stretchIn(1,
\* duration) builds in the same shape state: a stretch of the whole duration
\* from (0, 0) to the shape's current size, running, and a shrink of no
\* duration from the current size to the current size, not running.
C10_ScaleClamped ==
    [][(handler'.name = "stretchIn" /\ Lt(lastCall'.args[1], One)) =>
         /\ stretchSlot' =
              ShapeStretchIn(animatingEllipse, One, lastCall'.args[2],
                             reads'[1], reads'[2]).animationStretch
         /\ shrinkSlot' =
              ShapeStretchIn(animatingEllipse, One, lastCall'.args[2],
                             reads'[1], reads'[2]).animationShrink
         /\ stretchSlot'.isAnimating /\ ~shrinkSlot'.isAnimating
         /\ stretchSlot'.animDuration = lastCall'.args[2]
         /\ shrinkSlot'.animDuration = Sub(lastCall'.args[2], lastCall'.args[2])
         /\ stretchSlot'.animStartX = Zero /\ stretchSlot'.animStartY = Zero
         /\ stretchSlot'.animDestinationX = animatingEllipse.width
         /\ stretchSlot'.animDestinationY = animatingEllipse.height
         /\ shrinkSlot'.animStartX = animatingEllipse.width
         /\ shrinkSlot'.animStartY = animatingEllipse.height
         /\ shrinkSlot'.animDestinationX = animatingEllipse.width
         /\ shrinkSlot'.animDestinationY = animatingEllipse.height
         /\ ~Lt(stretchSlot'.animDestinationX, animatingEllipse.width)
         /\ ~Lt(stretchSlot'.animDestinationY, animatingEllipse.height)
      ]_vars

\* C10 witness: stretchIn(0.5, d) has just been called, and the stretch ends
\* at the shape's own size.
C10_Witness ==
    /\ handler.name = "stretchIn"
    /\ lastCall.args[1] = Frac(1, 2)
    /\ stretchSlot.isAnimating
    /\ stretchSlot.animDestinationX = animatingEllipse.width
    /\ stretchSlot.animDestinationY = animatingEllipse.height
    /\ shrinkSlot.animDuration = Zero

\* C11: duration split.  stretchIn(maxScale, duration) with maxScale >= 1 and
\* duration >= 0 gives the stretch record the duration
\* maxScale / (2 * maxScale - 1) * duration and the shrink record the
\* remainder: both are >= 0, they sum to duration, and the stretch duration
\* is at least half of duration.
C11_DurationSplit ==
    [][(/\ handler'.name = "stretchIn"
        /\ ~Lt(lastCall'.args[1], One)
        /\ ~Lt(lastCall'.args[2], Zero))
       => /\ stretchSlot'.animDuration =
               Mul(Div(lastCall'.args[1],
                       Sub(Mul(Two, lastCall'.args[1]), One)),
                   lastCall'.args[2])
          /\ shrinkSlot'.animDuration =
               Sub(lastCall'.args[2], stretchSlot'.animDuration)
          /\ ~Lt(stretchSlot'.animDuration, Zero)
          /\ ~Lt(shrinkSlot'.animDuration, Zero)
          /\ Add(stretchSlot'.animDuration, shrinkSlot'.animDuration)
               = lastCall'.args[2]
          /\ ~Lt(Mul(Two, stretchSlot'.animDuration), lastCall'.args[2])
      ]_vars

\* C11 witness: stretchIn(3, 1) has split its second into 3/5 and 2/5.
C11_Witness ==
    /\ handler.name = "stretchIn"
    /\ lastCall.args = <<Int2Num(3), One>>
    /\ stretchSlot.animDuration = Frac(3, 5)
    /\ shrinkSlot.animDuration = Frac(2, 5)

\* The stretch and the shrink slot are both stopped.
GrowthIdle == ~stretchSlot.isAnimating /\ ~shrinkSlot.isAnimating

StrictlyBetween(v, a, b) ==
    \/ Lt(a, v) /\ Lt(v, b)
    \/ Lt(b, v) /\ Lt(v, a)

\* From the value old to the value new a coordinate has not moved against
\* the direction of distance.
Toward(old, new, distance) ==
    /\ Gt(distance, Zero) => ~Lt(new, old)
    /\ Lt(distance, Zero) => ~Gt(new, old)

\* C13: no overshoot before completion.  After tween(fx, fy, d) with d > 0,
\* an update that reads the elapsed time 0 leaves x and y at the start; an
\* update that reads an elapsed time t with 0 < t < d puts each coordinate
\* whose distance is not zero strictly between its start and its destination;
\* and no update before completion moves a coordinate away from its
\* destination.
C13_NoOvershoot ==
    [][(/\ handler'.name = "draw"
        /\ tweenSlot.isAnimating
        /\ Gt(tweenSlot.animDuration, Zero)
        /\ Lt(TimePassed(reads'[1], tweenSlot), tweenSlot.animDuration))
       => /\ TimePassed(reads'[1], tweenSlot) = Zero
             => /\ animatingEllipse'.x = tweenSlot.animStartX
                /\ animatingEllipse'.y = tweenSlot.animStartY
          /\ Gt(TimePassed(reads'[1], tweenSlot), Zero)
             => /\ tweenSlot.animDistanceX # Zero
                   => StrictlyBetween(animatingEllipse'.x,
                                      tweenSlot.animStartX,
                                      tweenSlot.animDestinationX)
                /\ tweenSlot.animDistanceY # Zero
                   => StrictlyBetween(animatingEllipse'.y,
                                      tweenSlot.animStartY,
                                      tweenSlot.animDestinationY)
          /\ Toward(animatingEllipse.x, animatingEllipse'.x,
                    tweenSlot.animDistanceX)
          /\ Toward(animatingEllipse.y, animatingEllipse'.y,
                    tweenSlot.animDistanceY)
      ]_vars

\* The position and the size of the ellipse.
Geometry(s) == <<s.x, s.y, s.width, s.height>>

\* C14: independent axes.  An update changes x or y only if the tween slot
\* was running when it started, and width or height only if the stretch or
\* the shrink slot was; an update with no slot running changes nothing in
\* the shape.  tween changes neither x, y, width, height nor the stretch and
\* shrink records; stretchIn changes neither x, y, width, height nor the
\* tween record.
C14_FrameCondition ==
    [][/\ handler'.name = "draw"
          => /\ (\/ animatingEllipse'.x # animatingEllipse.x
                 \/ animatingEllipse'.y # animatingEllipse.y)
                => tweenSlot.isAnimating
             /\ (\/ animatingEllipse'.width # animatingEllipse.width
                 \/ animatingEllipse'.height # animatingEllipse.height)
                => (stretchSlot.isAnimating \/ shrinkSlot.isAnimating)
             /\ (/\ ~tweenSlot.isAnimating
                 /\ ~stretchSlot.isAnimating
                 /\ ~shrinkSlot.isAnimating)
                => animatingEllipse' = animatingEllipse
       /\ handler'.name = "tween"
          => /\ Geometry(animatingEllipse') = Geometry(animatingEllipse)
             /\ stretchSlot' = stretchSlot
             /\ shrinkSlot' = shrinkSlot
       /\ handler'.name = "stretchIn"
          => /\ Geometry(animatingEllipse') = Geometry(animatingEllipse)
             /\ tweenSlot' = tweenSlot
      ]_vars

\* C14 witness: an update with only the tween running has moved the shape
\* and left its size alone.
C14_Witness ==
    /\ handler.name = "draw"
    /\ calls = 1
    /\ lastCall.op = "tween"
    /\ IsFinite(animatingEllipse.x)
    /\ animatingEllipse.x # lastCall.at.x
    /\ animatingEllipse.y # lastCall.at.y
    /\ animatingEllipse.width = lastCall.at.width
    /\ animatingEllipse.height = lastCall.at.height

\* C15: re-triggering growth mid-flight keeps the original size.  In the
\* application, when stretchIn is called (by Replay or by the Growth button)
\* while a stretch or a shrink is running, the sequence that follows ends,
\* once both slots are idle, with the constructed width and height of the
\* ellipse, 20 x 20.
C15_RetriggerKeepsSize ==
    (/\ lastCall.op = "stretchIn"
     /\ lastCall.was.stretch \/ lastCall.was.shrink
     /\ handler.name = "draw"
     /\ GrowthIdle)
    => /\ animatingEllipse.width = Int2Num(20)
       /\ animatingEllipse.height = Int2Num(20)

\* C16: fixed slot order within one update.  In the update where the
\* stretch completes, the shrink block runs in that same update with the
\* re-stamped start time; when the clock has not advanced between the
\* re-stamp and the shrink block's read, the update ends with width and
\* height equal to the start values of the shrink record (the fully
\* stretched size) and with the shrink running.
C16_SameUpdateShrink ==
    [][(/\ handler'.name = "draw"
        /\ stretchSlot.isAnimating
        /\ TimeIsUp(reads'[2], stretchSlot)
        /\ reads'[4] = reads'[3])
       => /\ shrinkSlot'.animStartTime = reads'[3]
          /\ shrinkSlot'.isAnimating
          /\ animatingEllipse'.width = shrinkSlot'.animStartX
          /\ animatingEllipse'.height = shrinkSlot'.animStartY
      ]_vars

\* C17: the two-flag encoding.  In every state reached by stretchIn calls
\* and updates the stretch and the shrink slot are not both running, and a
\* stretchIn call issued while the shrink is running leaves a shrink record
\* that is not running.
C17_NeverBoth ==
    /\ [](~(stretchSlot.isAnimating /\ shrinkSlot.isAnimating))
    /\ [][(handler'.name = "stretchIn" /\ shrinkSlot.isAnimating)
            => /\ ~shrinkSlot'.isAnimating
               /\ stretchSlot'.isAnimating
               /\ shrinkSlot'.animStartTime = reads'[2]
          ]_vars

\* C17 witness: stretchIn has just been called while the shrink was running.
C17_Witness ==
    /\ handler.name = "stretchIn"
    /\ lastCall.was.shrink
    /\ ~lastCall.was.stretch
    /\ stretchSlot.isAnimating
    /\ ~shrinkSlot.isAnimating

----------------------------------------------------------------------------
\* One TextField on its own, driven through handleMouseClick and
\* handleKeyPressed; textFields holds it as its only field.

\* The configs it is constructed with: maxChars 3, 5 or not given (0), and a
\* value no longer than the maxChar that results.
FieldValues == { <<>>, <<"0", ".", "5">>, <<"1", "2", "3", "4", "5">> }

FieldConfigs ==
    {c \in [x : {xTextField.x}, y : {xTextField.y},
            width : {TEXT_FIELD_WIDTH}, height : {TEXT_FIELD_HEIGHT},
            maxChars : {0, 3, 5}, value : FieldValues] :
        Len(c.value) <= TextField(c).maxChar}

\* The key events: those of the application and the delete key.
FieldKeyEvents == KeyEvents \cup {[keyCode |-> DELETE, key |-> DELETE]}

InitField ==
    /\ clock = 0
    /\ animatingEllipse = AnimatableEllipse(0)
    /\ sceneNumber = 1
    /\ handler = [name |-> "init", reads |-> <<>>]
    /\ lastCall = NoCall
    /\ calls = 0
    /\ keys = 0
    /\ drawnScene = 0
    /\ \E c \in FieldConfigs, enabled \in BOOLEAN :
          textFields = [field |-> [TextField(c) EXCEPT !.isEnabled = enabled]]

\* field.handleMouseClick() with the mouse inside or outside the field.
FieldClick ==
    \E m \in {XScalePoint, NowherePoint} :
        /\ textFields' = [field |-> handleMouseClick(textFields.field, m)]
        /\ handler' = [name |-> "mouseClicked", reads |-> <<>>]
        /\ UNCHANGED <<clock, animatingEllipse, sceneNumber, lastCall, calls,
                       keys, drawnScene>>

\* field.handleKeyPressed() on the key event k, which the history keeps.
FieldKey ==
    \E k \in FieldKeyEvents :
        /\ textFields' = [field |-> handleKeyPressed(textFields.field, k)]
        /\ handler' = [name |-> "keyPressed", reads |-> <<>>, event |-> k]
        /\ UNCHANGED <<clock, animatingEllipse, sceneNumber, lastCall, calls,
                       keys, drawnScene>>

NextField == FieldClick \/ FieldKey

SpecField == InitField /\ [][NextField]_vars

----------------------------------------------------------------------------
\* The steps of the user interface, by the handler that ran.

ClickStep == handler'.name \in {"mouseClicked", "tween", "stretchIn"}

KeyStep == handler'.name = "keyPressed"

\* The Growth scene is shown and drawUI() has drawn it.
GrowthDrawn == sceneNumber = 2 /\ drawnScene = 2

\* The names of the text fields that are active.
ActiveFields == {f \in FieldNames : textFields[f].isActive}

\* C18: while the Growth scene is shown and its UI has been drawn at least
\* once, a mouse click leaves neither the Final x nor the Final y text field
\* active.
C18_NoClickActivatesXY ==
    [][(GrowthDrawn /\ ClickStep)
          => (~textFields'.x.isActive /\ ~textFields'.y.isActive)]_vars

\* The names of the text fields whose value a step changes.
ChangedFields == {f \in FieldNames : textFields'[f].value # textFields[f].value}

\* C19: at most one of the four text fields is active in every reachable
\* state of the application, and a key press changes the value of at most one
\* text field, although Final x and Scale are given the same rectangle.
C19_AtMostOneActive ==
    /\ [](Cardinality(ActiveFields) <= 1)
    /\ [][KeyStep => Cardinality(ChangedFields) <= 1]_vars

\* A click inside the rectangle shared by Final x and Scale made Scale, and
\* not Final x, active, and a key press has edited Scale alone.
C19_Witness ==
    /\ handler.name = "keyPressed"
    /\ isMouseInside(textFields.x, XScalePoint)
    /\ isMouseInside(textFields.scale, XScalePoint)
    /\ ActiveFields = {"scale"}
    /\ textFields.scale.value # scaleTextField.value
    /\ textFields.x.value = xTextField.value

\* The key that the step handles erases; any other key is a character key.
Erases(k) == k.keyCode = DELETE \/ k.keyCode = BACKSPACE

\* C20: for a TextField constructed with a value no longer than maxChar,
\* numChar equals the length of value and 0 <= numChar <= maxChar in every
\* reachable state; a key press on an inactive field, an erasing key on an
\* empty field and a character key on a full field leave value and numChar
\* unchanged.
C20_FieldInvariant ==
    /\ [](/\ textFields.field.numChar = Len(textFields.field.value)
          /\ 0 <= textFields.field.numChar
          /\ textFields.field.numChar <= textFields.field.maxChar)
    /\ [][(/\ KeyStep
           /\ \/ ~textFields.field.isActive
              \/ Erases(handler'.event) /\ textFields.field.numChar = 0
              \/ /\ ~Erases(handler'.event)
                 /\ textFields.field.numChar = textFields.field.maxChar)
             => (/\ textFields'.field.value = textFields.field.value
                 /\ textFields'.field.numChar = textFields.field.numChar)]_vars

\* An active field constructed with "0.5" and maxChar 5 has been erased and
\* typed into until it is full, and the last key was a character key.
C20_Witness ==
    /\ handler.name = "keyPressed"
    /\ handler.event \in CharKeys
    /\ textFields.field.isActive
    /\ textFields.field.maxChar = 5
    /\ textFields.field.value = <<"0", "7", ".", "7", "7">>
    /\ textFields.field.numChar = 5

====
